---- MODULE Spec2Model ----
(***************************************************************************)
(* QuickFetch: the fetch/cache coordinator (src/src/lib.rs), its value     *)
(* codec (src/src/key_val.rs) and its cipher envelope                      *)
(* (src/src/encrption.rs, src/quickfetch_traits/src/lib.rs).               *)
(*                                                                         *)
(* Bytes are modelled as records: a plain byte is [b |-> n]; the bytes an  *)
(* AEAD produces are symbolic (they name the key, nonce and plaintext they *)
(* were sealed from), so that opening succeeds exactly on what was sealed  *)
(* under the same key and nonce.                                           *)
(***************************************************************************)
EXTENDS Integers, Sequences, FiniteSets, TLC

(* ------------------------------ bounds -------------------------------- *)
MaxEntries == 2
MaxPasses == 2
MaxData == 2
MaxUpdates == 2

(* ------------------------- program constants -------------------------- *)
NONCE_SIZE == 12
KeySize == 32
TagSize == 16

(* ------------------------------- bytes -------------------------------- *)
B(n) == [b |-> n]

IsPlain(x) == DOMAIN x = {"b"}

Rep(n, x) == [i \in 1..n |-> x]

Ok(v) == [ok |-> TRUE, val |-> v]
Err(kind) == [ok |-> FALSE, err |-> kind]

(* -------------------- AEAD primitive (aead crate) --------------------- *)
\* cipher.encrypt(nonce, data): ciphertext of Len(data) bytes, then the tag.
Seal(key, nonce, pt) ==
  [i \in 1..Len(pt) |-> [c |-> pt[i], i |-> i, k |-> key, n |-> nonce]]
    \o [j \in 1..TagSize |-> [t |-> j, k |-> key, n |-> nonce, p |-> pt]]

IsSealed(x) == DOMAIN x = {"c", "i", "k", "n"}

\* cipher.decrypt(nonce, ciphertext): the plaintext, or an aead::Error when
\* the tag does not verify under this key and nonce.
Open(key, nonce, ct) ==
  IF Len(ct) < TagSize THEN Err("aead")
  ELSE LET n == Len(ct) - TagSize IN
       IF \A i \in 1..n : IsSealed(ct[i])
       THEN LET pt == [i \in 1..n |-> ct[i].c] IN
            IF ct = Seal(key, nonce, pt) THEN Ok(pt) ELSE Err("aead")
       ELSE Err("aead")

\* Aes256Gcm::new_from_slice(key): an InvalidLength error unless 32 bytes.
ValidKey(key) == Len(key) = KeySize

(* ------------- EncryptionMethod enum (src/src/encrption.rs) ----------- *)
EncryptionMethod_encrypt(data, key, nonce) ==
  IF ~ValidKey(key) THEN Err("panic")
  ELSE Ok(nonce \o Seal(key, nonce, data))

EncryptionMethod_decrypt(data, key) ==
  IF ~ValidKey(key) THEN Err("panic")
  ELSE LET mid == Len(data) \div 2
           nonce == SubSeq(data, 1, mid)
           ciphertext == SubSeq(data, mid + 1, Len(data))
       IN IF Len(nonce) # NONCE_SIZE THEN Err("panic")
          ELSE LET r == Open(key, nonce, ciphertext) IN
               IF r.ok THEN r ELSE Err("panic")

(* ----- EncryptionMethod trait (src/quickfetch_traits/src/lib.rs) ------ *)
encrypt_generic(data, key, nonce) ==
  IF ~ValidKey(key) THEN Err("panic")
  ELSE Ok(Seal(key, nonce, data))

decrypt_generic(data, key) ==
  IF ~ValidKey(key) THEN Err("panic")
  ELSE IF Len(data) < NONCE_SIZE THEN Err("panic")
  ELSE LET nonce == SubSeq(data, 1, NONCE_SIZE)
           ciphertext == SubSeq(data, NONCE_SIZE + 1, Len(data))
           r == Open(key, nonce, ciphertext)
       IN IF r.ok THEN r ELSE Err("panic")

\* The installed method: "AesGcm" is the enum of encrption.rs, "Generic" a
\* unit struct of encryption.rs using the trait's default methods.
Methods == {"AesGcm", "Generic"}

encrypt(m, data, key, nonce) ==
  IF m = "AesGcm" THEN EncryptionMethod_encrypt(data, key, nonce)
  ELSE encrypt_generic(data, key, nonce)

decrypt(m, data, key) ==
  IF m = "AesGcm" THEN EncryptionMethod_decrypt(data, key)
  ELSE decrypt_generic(data, key)

Nonces == {Rep(NONCE_SIZE, B(1)), Rep(NONCE_SIZE, B(2))}

(* ------------------ value codec (src/src/key_val.rs) ------------------ *)
\* bincode: every String and Vec<u8> field is its length, then its bytes.
EncField(s) == <<B(Len(s))>> \o s

\* EntryValue::bytes for SimpleValue { version, url, response }.
Bytes(v) == EncField(v.version) \o EncField(v.url) \o EncField(v.response)

FieldOk(bs, pos) ==
  /\ pos <= Len(bs)
  /\ IsPlain(bs[pos])
  /\ pos + bs[pos].b <= Len(bs)

FieldVal(bs, pos) == SubSeq(bs, pos + 1, pos + bs[pos].b)

FieldEnd(bs, pos) == pos + bs[pos].b + 1

IsUtf8(s) == \A i \in 1..Len(s) : IsPlain(s[i])

\* bincode::deserialize: Err on a short or ill-typed buffer (trailing bytes
\* are allowed); the two String fields must be text.
Deserialize(bs) ==
  IF ~FieldOk(bs, 1) THEN Err("decode")
  ELSE LET p2 == FieldEnd(bs, 1) IN
       IF ~FieldOk(bs, p2) THEN Err("decode")
       ELSE LET p3 == FieldEnd(bs, p2) IN
            IF ~FieldOk(bs, p3) THEN Err("decode")
            ELSE IF ~(IsUtf8(FieldVal(bs, 1)) /\ IsUtf8(FieldVal(bs, p2)))
                 THEN Err("decode")
                 ELSE Ok([version  |-> FieldVal(bs, 1),
                          url      |-> FieldVal(bs, p2),
                          response |-> FieldVal(bs, p3)])

\* EntryValue::from_ivec: bincode::deserialize(..).unwrap().
from_ivec(bs) ==
  LET r == Deserialize(bs) IN IF r.ok THEN r ELSE Err("panic")

\* SimpleValue::is_same.
\* An identity that also compares the url.
is_same_url(v, other) == v.version = other.version /\ v.url = other.url

is_same(v, other) == v.version = other.version

\* EntryValue::set_response.
set_response(v, response) == [v EXCEPT !.response = response]

(* ---------------------------- entry model ----------------------------- *)
Names == {1, 2}
Versions == {<<B(1)>>, <<B(2)>>}
Urls == {<<B(1)>>, <<B(2)>>}

EntrySet == [name : Names, version : Versions, url : Urls]

\* Entry::key: the package name; EntryKey::bytes for String is its UTF-8
\* bytes.  Name 1 is 32 bytes long, name 2 is a single byte.
KeyBytes(name) == IF name = 1 THEN Rep(KeySize, B(1)) ELSE <<B(name)>>

\* Entry::value: SimpleValue::new(version, url), the response empty.
EntryValue(e) == [version |-> e.version, url |-> e.url, response |-> <<>>]

\* The mocked HTTP server: the body served for a URL during pass number p.
ServerBody(url, p) == <<B(10 * p + url[1].b)>>

\* Fetcher::resp_bytes: the three response methods accumulate the same body.
resp_bytes(method, body) ==
  IF method = "Bytes" THEN body
  ELSE LET RECURSIVE Acc(_, _)
           Acc(buf, rest) == IF rest = <<>> THEN buf
                             ELSE Acc(buf \o <<Head(rest)>>, Tail(rest))
       IN Acc(<<>>, body)

(* ------------------------------- state -------------------------------- *)
VARIABLES
  entries,            \* Fetcher.entries: the entry list bound at construction
  db,                 \* the sled tree: key name -> stored bytes
  encryption_method,  \* Fetcher.encryption_method: "None" or one of Methods
  response_method,    \* Fetcher.response_method
  notify_method,      \* Fetcher.notify_method
  mode,               \* "idle", or the dispatch of the running pass
  pc,                 \* per entry: where its task / producer stands
  cv,                 \* per entry: cv_bytes, the prior bytes its lookup read
  chan,               \* the bounded channel of channel_fetch
  cons,               \* the consumer of channel_fetch, n messages handled
  result,             \* how the last pass ended: "none","ok","err","panic"
  gets,               \* per entry: GET requests issued in the current pass
  logs,               \* per entry: the log line its handler wrote in the pass
  casn,               \* compare-and-swap replacements applied in the pass
  passNo,             \* passes started so far
  startDb,            \* the store when the current pass started
  prevResult,         \* how the pass before the current one ended
  pending,            \* the config edit made since the last pass
  edit,               \* the config edit that preceded the current pass
  lastBody,           \* per entry: body of its last successful GET
  got,                \* what the last direct read since the pass returned
  unit,               \* the cipher called directly: input, envelope, output
  error,              \* the failure the last pass surfaced to its caller
  watch,              \* the watch loop: state, reloaded config, event queue
  upd,                \* an update(k, v) in progress through a clone
  files,              \* what write_all since the last pass wrote, and how it ended
  ref                 \* the store a pass over a fresh cache left earlier

vars == <<entries, db, encryption_method, response_method, notify_method,
          mode, pc, cv, chan, cons, result, gets, casn, passNo, startDb,
          prevResult, pending, edit, lastBody, got, unit, error, watch,
          upd, files, ref, logs>>

opVars == <<watch, upd, files, ref>>
cfgVars == <<encryption_method, response_method, notify_method>>
passVars == <<mode, pc, cv, chan, cons, result, error, gets, logs, casn,
              passNo, startDb, prevResult, edit>>

Idx == 1..Len(entries)

None == [some |-> FALSE]
Some(v) == [some |-> TRUE, v |-> v]

EmptyDb == [k \in {} |-> <<>>]

NoEdit == [field |-> "none", i |-> 0]

\* write_all has not run since the last pass; the directory is absent.
FilesOff == [st |-> "off", out |-> "none", dir |-> FALSE,
             tree |-> [n \in {} |-> <<>>]]

\* No watch loop is running.
WatchOff == [st |-> "off", impl |-> "none", config |-> <<>>, file |-> None,
             queue |-> <<>>, last |-> None]

\* No update call has been made.
UpdOff == [st |-> "off", k |-> 0, v |-> [version |-> <<>>, url |-> <<>>,
                                        response |-> <<>>],
           cv |-> <<>>, out |-> "none", n |-> 0]

\* An insert that leaves the new record alone in the store.
insert_alone(d, k, v) == [x \in {k} |-> v]

\* An insert that leaves a key that is already stored as it is.
insert_if_absent(d, k, v) ==
  [x \in DOMAIN d \cup {k} |-> IF x \in DOMAIN d THEN d[x] ELSE v]

\* sled insert.
insert(d, k, v) == [x \in DOMAIN d \cup {k} |-> IF x = k THEN v ELSE d[x]]

\* A swap that does not compare: the new bytes are written whatever is stored.
compare_and_swap_blind(d, k, old, new) == insert(d, k, new)

\* sled compare_and_swap(key, Some(old), Some(new)).
compare_and_swap(d, k, old, new) ==
  IF k \in DOMAIN d /\ d[k] = old THEN insert(d, k, new) ELSE d

\* Fetcher::encrypt_bytes.
encrypt_bytes(m, bytes, key, nonce) ==
  IF m = "None" THEN Ok(bytes) ELSE encrypt(m, bytes, key, nonce)

\* Fetcher::dec_or_clone.
dec_or_clone(m, value, key) ==
  IF m = "None" THEN Ok(value) ELSE decrypt(m, value, key)

NonceChoice(m) == IF m = "None" THEN {<<>>} ELSE Nonces

EntryLists == UNION {[1..n -> EntrySet] : n \in 0..MaxEntries}

InitCommon ==
  /\ db = EmptyDb
  /\ response_method = "Bytes"
  /\ notify_method = "Log"
  /\ mode = "idle"
  /\ pc = [i \in Idx |-> "done"]
  /\ cv = [i \in Idx |-> <<>>]
  /\ chan = <<>>
  /\ cons = [st |-> "off", n |-> 0]
  /\ result = "none"
  /\ gets = [i \in Idx |-> 0]
  /\ logs = [i \in Idx |-> "none"]
  /\ casn = 0
  /\ passNo = 0
  /\ startDb = EmptyDb
  /\ prevResult = "none"
  /\ pending = NoEdit
  /\ edit = NoEdit
  /\ lastBody = [i \in Idx |-> None]
  /\ got = None
  /\ error = None
  /\ upd = UpdOff
  /\ files = FilesOff
  /\ ref = None

\* Fetcher::new: the entries of the config, no cipher, Bytes, Log.
Init ==
  /\ entries \in EntryLists
  /\ encryption_method = "None"
  /\ InitCommon
  /\ unit = [st |-> "off"]
  /\ watch = WatchOff

(* ------------------------- fetch(Concurrent) -------------------------- *)
StartPass(m) ==
  /\ mode = "idle"
  /\ passNo < MaxPasses
  /\ mode' = m
  /\ pc' = [i \in Idx |-> "start"]
  /\ cv' = [i \in Idx |-> <<>>]
  /\ chan' = <<>>
  /\ cons' = [st |-> "off", n |-> 0]
  /\ result' = "none"
  /\ error' = None
  /\ gets' = [i \in Idx |-> 0]
  /\ logs' = [i \in Idx |-> "none"]
  /\ casn' = 0
  /\ passNo' = passNo + 1
  /\ startDb' = db
  /\ prevResult' = result
  /\ edit' = pending
  /\ pending' = NoEdit
  /\ got' = None
  /\ files' = FilesOff
  /\ UNCHANGED <<entries, db, cfgVars, lastBody, unit, watch, upd, ref>>

\* concurrent_fetch: one spawned task per entry.
concurrent_fetch_spawn == StartPass("conc")

\* The log line of an entry handler: log_caching / log_cache are called by
\* Fetcher's handlers when notify_method is Log, and by
\* WatchFetcher::handle_entry whatever the notify method.
LogLine(kind) ==
  IF notify_method = "Log"
     \/ (watch.st = "fetching" /\ watch.impl = "WatchFetcher")
  THEN kind ELSE "none"

\* A handler that stores the entry's record at once, before any body has
\* been read, and then sends the GET.
handle_entry_conc_lookup_early(i) ==
  /\ mode = "conc"
  /\ pc[i] = "start"
  /\ db' = insert(db, entries[i].name, Bytes(EntryValue(entries[i])))
  /\ pc' = [pc EXCEPT ![i] = "get_miss"]
  /\ gets' = [gets EXCEPT ![i] = @ + 1]
  /\ UNCHANGED <<opVars, entries, cfgVars, mode, cv, chan, cons, result,
                 error, logs, casn, passNo, startDb, prevResult, pending,
                 edit, lastBody, got, unit>>

\* handle_entry_conc up to its first await: the lookup, the identity check
\* and, on a miss or a stale record, the GET request being sent.
handle_entry_conc_lookup(i) ==
  /\ mode = "conc"
  /\ pc[i] = "start"
  /\ LET e == entries[i]
         k == e.name
     IN \/ /\ pc' = [pc EXCEPT ![i] = "failed"]      \* db.get(..)? fails
           /\ UNCHANGED <<cv, gets, logs>>
        \/ /\ k \in DOMAIN db
           /\ LET cur == from_ivec(db[k]) IN
              IF ~cur.ok
              THEN /\ pc' = [pc EXCEPT ![i] = "panicked"]
                   /\ UNCHANGED <<cv, gets, logs>>
              ELSE IF ~is_same(EntryValue(e), cur.val)
              THEN /\ pc' = [pc EXCEPT ![i] = "get_stale"]
                   /\ cv' = [cv EXCEPT ![i] = db[k]]
                   /\ gets' = [gets EXCEPT ![i] = @ + 1]
                   /\ logs' = [logs EXCEPT ![i] = LogLine("caching")]
              ELSE /\ pc' = [pc EXCEPT ![i] = "done"]
                   /\ logs' = [logs EXCEPT ![i] = LogLine("cached")]
                   /\ UNCHANGED <<cv, gets>>
        \/ /\ k \notin DOMAIN db
           /\ pc' = [pc EXCEPT ![i] = "get_miss"]
           /\ gets' = [gets EXCEPT ![i] = @ + 1]
           /\ logs' = [logs EXCEPT ![i] = LogLine("caching")]
           /\ UNCHANGED cv
  /\ UNCHANGED <<opVars, entries, db, cfgVars, mode, chan, cons, result,
                 error, casn, passNo,
                 startDb, prevResult, pending, edit, lastBody, got, unit>>

\* A store write whose miss path writes only if the key is still absent.
StoreWrite_absent(d, path, k, old, new) ==
  IF path = "get_miss" THEN insert_if_absent(d, k, new)
  ELSE compare_and_swap(d, k, old, new)

\* A store write that inserts on the stale path too.
StoreWrite_insert(d, path, k, old, new) == insert(d, k, new)

\* The store write that ends handle_entry_conc: insert on the miss path,
\* compare_and_swap against cv_bytes on the stale path.
StoreWrite(d, path, k, old, new) ==
  IF path = "get_miss" THEN insert(d, k, new)
  ELSE compare_and_swap(d, k, old, new)

\* A task that starts over when its compare_and_swap did not swap.
after_write_retry(path, swapped) ==
  IF path = "get_stale" /\ ~swapped THEN "start" ELSE "done"

\* Where the task goes after its write: `let _ =` drops the outcome of
\* compare_and_swap and the handler returns Ok(()).
after_write(path, swapped) == "done"

\* handle_entry_conc from the response on: read the body, encrypt it and
\* write the record (compare_and_swap on the stale path, insert on a miss).
handle_entry_conc_write(i) ==
  /\ mode = "conc"
  /\ pc[i] \in {"get_miss", "get_stale"}
  /\ LET e == entries[i]
         k == e.name
         body == resp_bytes(response_method, ServerBody(e.url, passNo))
     IN \/ /\ pc' = [pc EXCEPT ![i] = "failed"]      \* send / body read fails
           /\ UNCHANGED <<db, casn, lastBody>>
        \/ \E nonce \in NonceChoice(encryption_method), storeOk \in BOOLEAN :
             LET enc == encrypt_bytes(encryption_method, body, KeyBytes(k), nonce)
             IN /\ lastBody' = [lastBody EXCEPT ![i] = Some(body)]
                /\ IF ~enc.ok
                   THEN /\ pc' = [pc EXCEPT ![i] = "panicked"]
                        /\ UNCHANGED <<db, casn>>
                   ELSE IF ~storeOk
                   THEN /\ pc' = [pc EXCEPT ![i] = "failed"]
                        /\ UNCHANGED <<db, casn>>
                   ELSE LET new == Bytes(set_response(EntryValue(e), enc.val))
                            d2 == StoreWrite(db, pc[i], k, cv[i], new)
                        IN /\ db' = d2
                           /\ casn' = IF pc[i] = "get_stale" /\ d2 # db
                                      THEN casn + 1 ELSE casn
                           /\ pc' = [pc EXCEPT ![i] =
                                        after_write(pc[i], d2 # db)]
  /\ UNCHANGED <<opVars, entries, cfgVars, mode, cv, chan, cons, result,
                 error, gets, logs, passNo,
                 startDb, prevResult, pending, edit, got, unit>>

\* join_all(tasks), then try_for_each(|x| x?): Ok only if every task is Ok.
\* A join that returns at the first failed task, not awaiting the others.
concurrent_fetch_join_first ==
  /\ mode = "conc"
  /\ \E i \in Idx : pc[i] \in {"failed", "panicked"}
  /\ result' = "err"
  /\ error' = LET i == CHOOSE x \in Idx : pc[x] \in {"failed", "panicked"}
              IN Some([i |-> i, how |-> pc[i]])
  /\ mode' = "idle"
  /\ UNCHANGED <<opVars, entries, db, cfgVars, pc, cv, chan, cons, gets, logs, casn,
                 passNo, startDb, prevResult, pending, edit, lastBody, got,
                 unit>>

\* A join that returns as soon as one task has ended, whatever its outcome,
\* the other tasks still running.
concurrent_fetch_join_any ==
  /\ mode = "conc"
  /\ \E i \in Idx : pc[i] \in {"done", "failed", "panicked"}
  /\ result' = IF \A i \in Idx : pc[i] \in {"done", "start", "get_miss",
                                              "get_stale"}
               THEN "ok" ELSE "err"
  /\ error' = IF \A i \in Idx : pc[i] \in {"done", "start", "get_miss",
                                             "get_stale"}
              THEN None
              ELSE LET i == CHOOSE x \in Idx : pc[x] \in {"failed", "panicked"}
                   IN Some([i |-> i, how |-> pc[i]])
  /\ mode' = "idle"
  /\ UNCHANGED <<opVars, entries, db, cfgVars, pc, cv, chan, cons, gets, logs,
                 casn, passNo, startDb, prevResult, pending, edit, lastBody,
                 got, unit>>

\* join_all(tasks).await, then the first Err in entry order, else Ok.
concurrent_fetch_join ==
  /\ mode = "conc"
  /\ \A i \in Idx : pc[i] \in {"done", "failed", "panicked"}
  /\ result' = IF \A i \in Idx : pc[i] = "done" THEN "ok" ELSE "err"
  /\ error' = IF \A i \in Idx : pc[i] = "done" THEN None
              ELSE LET i == CHOOSE x \in Idx :
                              /\ pc[x] # "done"
                              /\ \A y \in Idx : pc[y] # "done" => x <= y
                   IN Some([i |-> i, how |-> pc[i]])
  /\ mode' = "idle"
  /\ UNCHANGED <<opVars, entries, db, cfgVars, pc, cv, chan, cons, gets, logs,
                 casn, passNo,
                 startDb, prevResult, pending, edit, lastBody, got, unit>>

(* --------------------------- fetch(Channel) --------------------------- *)
\* channel_fetch: the producers run as one spawned stream
\* (for_each_concurrent), the consumer drains the channel afterwards.
channel_fetch_spawn == StartPass("chan")

\* A producer's unwrap() panics: the spawned stream dies with every producer
\* still in it, and `tokio::spawn(entries_stream).await?` returns the
\* JoinError before the consumer has started.
producer_panic(i) ==
  /\ pc' = [j \in Idx |-> IF j = i THEN "panicked"
                         ELSE IF pc[j] = "sent" THEN "sent" ELSE "aborted"]
  /\ chan' = <<>>
  /\ result' = "err"
  /\ error' = Some([i |-> i, how |-> "panicked"])
  /\ mode' = "idle"

\* A producer that also fetches for a key whose stored record is stale.
NeedsGet_stale(d, e) ==
  IF e.name \notin DOMAIN d THEN TRUE
  ELSE /\ from_ivec(d[e.name]).ok
       /\ ~is_same(EntryValue(e), from_ivec(d[e.name]).val)

\* The producer's test: !db.contains_key(entry.key().bytes()).
NeedsGet(d, e) == e.name \notin DOMAIN d

\* The producer up to its first await: the presence check, then either the
\* GET being sent or (entry, None) posted at once.
producer_check(i) ==
  /\ mode = "chan"
  /\ pc[i] = "start"
  /\ LET k == entries[i].name
     IN \/ /\ producer_panic(i)                      \* contains_key fails
           /\ UNCHANGED gets
        \/ /\ NeedsGet(db, entries[i])
           /\ pc' = [pc EXCEPT ![i] = "get"]
           /\ gets' = [gets EXCEPT ![i] = @ + 1]
           /\ UNCHANGED <<chan, result, error, mode>>
        \/ /\ ~NeedsGet(db, entries[i])
           /\ pc' = [pc EXCEPT ![i] = "sent"]
           /\ chan' = Append(chan, [i |-> i, bytes |-> None])
           /\ UNCHANGED <<gets, result, error, mode>>
  /\ UNCHANGED <<opVars, entries, db, cfgVars, cv, cons, logs, casn, passNo,
                 startDb,
                 prevResult, pending, edit, lastBody, got, unit>>

\* The producer from the response on: read the body and post it.
producer_send(i) ==
  /\ mode = "chan"
  /\ pc[i] = "get"
  /\ LET e == entries[i]
         body == resp_bytes(response_method, ServerBody(e.url, passNo))
     IN \/ /\ producer_panic(i)                      \* send / body read fails
           /\ UNCHANGED lastBody
        \/ /\ pc' = [pc EXCEPT ![i] = "sent"]
           /\ chan' = Append(chan, [i |-> i, bytes |-> Some(body)])
           /\ lastBody' = [lastBody EXCEPT ![i] = Some(body)]
           /\ UNCHANGED <<result, error, mode>>
  /\ UNCHANGED <<opVars, entries, db, cfgVars, cv, cons, gets, logs, casn, passNo,
                 startDb,
                 prevResult, pending, edit, got, unit>>

\* A consumer that starts without waiting for the producers.
ProducersDone_nowait == TRUE

\* tokio::spawn(entries_stream).await has returned: every producer has
\* posted its message.

ProducersDone == \A i \in Idx : pc[i] = "sent"

\* handle_entry_channel(..).await.unwrap() panics in the caller's task.
consumer_panic(i) ==
  /\ pc' = [pc EXCEPT ![i] = "panicked"]
  /\ result' = "panic"
  /\ error' = Some([i |-> i, how |-> "panicked"])
  /\ mode' = "idle"
  /\ cons' = [st |-> "off", n |-> cons.n]
  /\ chan' = <<>>

\* handle_entry_channel up to its first await, for the message at the head
\* of the channel.
handle_entry_channel_head ==
  /\ mode = "chan"
  /\ ProducersDone
  /\ cons.st = "off"
  /\ chan # <<>>
  /\ LET msg == Head(chan)
         i == msg.i
         e == entries[i]
         k == e.name
     IN IF msg.bytes.some
        THEN \E nonce \in NonceChoice(encryption_method), storeOk \in BOOLEAN :
               LET enc == encrypt_bytes(encryption_method, msg.bytes.v,
                                        KeyBytes(k), nonce)
               IN /\ logs' = [logs EXCEPT ![i] = LogLine("caching")]
                  /\ IF ~enc.ok \/ ~storeOk
                     THEN /\ consumer_panic(i)
                          /\ UNCHANGED <<db, gets>>
                     ELSE /\ db' = insert(db, k,
                                     Bytes(set_response(EntryValue(e),
                                                        enc.val)))
                          /\ chan' = Tail(chan)
                          /\ cons' = [cons EXCEPT !.n = @ + 1]
                          /\ UNCHANGED <<pc, gets, result, error, mode>>
        ELSE \/ /\ consumer_panic(i)                  \* db.get(..)? fails
                /\ UNCHANGED <<db, gets, logs>>
             \/ /\ k \in DOMAIN db
                /\ LET cur == from_ivec(db[k]) IN
                   IF ~cur.ok
                   THEN /\ consumer_panic(i)
                        /\ UNCHANGED <<db, gets, logs>>
                   ELSE IF ~is_same(EntryValue(e), cur.val)
                   THEN /\ cons' = [st |-> "get", i |-> i, cv |-> db[k],
                                  n |-> cons.n]
                        /\ gets' = [gets EXCEPT ![i] = @ + 1]
                        /\ logs' = [logs EXCEPT ![i] = LogLine("caching")]
                        /\ chan' = Tail(chan)
                        /\ UNCHANGED <<pc, db, result, error, mode>>
                   ELSE /\ chan' = Tail(chan)
                        /\ logs' = [logs EXCEPT ![i] = LogLine("cached")]
                        /\ cons' = [cons EXCEPT !.n = @ + 1]
                        /\ UNCHANGED <<pc, db, gets, result, error, mode>>
             \/ /\ k \notin DOMAIN db
                /\ chan' = Tail(chan)
                /\ cons' = [cons EXCEPT !.n = @ + 1]
                /\ UNCHANGED <<pc, db, gets, logs, result, error, mode>>
  /\ UNCHANGED <<opVars, entries, cfgVars, cv, casn, passNo, startDb,
                 prevResult,
                 pending, edit, lastBody, got, unit>>

\* handle_entry_channel from the response of its stale-path GET on.
handle_entry_channel_write ==
  /\ mode = "chan"
  /\ cons.st = "get"
  /\ LET i == cons.i
         e == entries[i]
         k == e.name
         body == resp_bytes(response_method, ServerBody(e.url, passNo))
     IN \/ /\ consumer_panic(i)                       \* send / body read fails
           /\ UNCHANGED <<db, casn, lastBody>>
        \/ \E nonce \in NonceChoice(encryption_method), storeOk \in BOOLEAN :
             LET enc == encrypt_bytes(encryption_method, body, KeyBytes(k), nonce)
             IN /\ lastBody' = [lastBody EXCEPT ![i] = Some(body)]
                /\ IF ~enc.ok \/ ~storeOk
                   THEN /\ consumer_panic(i)
                        /\ UNCHANGED <<db, casn>>
                   ELSE LET new == Bytes(set_response(EntryValue(e), enc.val))
                            d2 == compare_and_swap(db, k, cons.cv, new)
                        IN /\ db' = d2
                           /\ casn' = IF d2 # db THEN casn + 1 ELSE casn
                           /\ cons' = [st |-> "off", n |-> cons.n + 1]
                           /\ UNCHANGED <<pc, chan, result, error, mode>>
  /\ UNCHANGED <<opVars, entries, cfgVars, cv, gets, logs, passNo, startDb,
                 prevResult,
                 pending, edit, got, unit>>

\* A channel_fetch that returns Ok once the producers are done, without
\* draining the channel.
channel_fetch_done_early ==
  /\ mode = "chan"
  /\ ProducersDone
  /\ cons.st = "off"
  /\ result' = "ok"
  /\ error' = None
  /\ mode' = "idle"
  /\ UNCHANGED <<opVars, entries, db, cfgVars, pc, cv, chan, cons, gets, logs,
                 casn, passNo, startDb, prevResult, pending, edit, lastBody,
                 got, unit>>

\* rx.stream() ends once the channel is drained: channel_fetch returns Ok.
channel_fetch_done ==
  /\ mode = "chan"
  /\ ProducersDone
  /\ cons.st = "off"
  /\ chan = <<>>
  /\ result' = "ok"
  /\ error' = None
  /\ mode' = "idle"
  /\ UNCHANGED <<opVars, entries, db, cfgVars, pc, cv, chan, cons, gets, logs,
                 casn, passNo,
                 startDb, prevResult, pending, edit, lastBody, got, unit>>

(* -------------------- the config between two passes ------------------- *)
Other(S, x) == CHOOSE y \in S : y # x

\* The config file is edited and the coordinator constructed anew
\* (Fetcher::new) over the same db path: one entry's url changes.
EditUrl(i) ==
  /\ mode = "idle"
  /\ passNo \in 1..(MaxPasses - 1)
  /\ pending = NoEdit
  /\ entries' = [entries EXCEPT ![i].url = Other(Urls, @)]
  /\ pending' = [field |-> "url", i |-> i]
  /\ UNCHANGED <<opVars, db, cfgVars, passVars, lastBody, got, unit>>

\* As EditUrl, for one entry's version.
EditVersion(i) ==
  /\ mode = "idle"
  /\ passNo \in 1..(MaxPasses - 1)
  /\ pending = NoEdit
  /\ entries' = [entries EXCEPT ![i].version = Other(Versions, @)]
  /\ pending' = [field |-> "version", i |-> i]
  /\ UNCHANGED <<opVars, db, cfgVars, passVars, lastBody, got, unit>>

\* The steps of a running concurrent_fetch.
ConcSteps ==
  \/ \E i \in Idx : handle_entry_conc_lookup(i)
  \/ \E i \in Idx : handle_entry_conc_write(i)
  \/ concurrent_fetch_join

\* The steps of a running channel_fetch.
ChanSteps ==
  \/ \E i \in Idx : producer_check(i)
  \/ \E i \in Idx : producer_send(i)
  \/ handle_entry_channel_head
  \/ handle_entry_channel_write
  \/ channel_fetch_done

\* The steps of a running pass.
FetchSteps == ConcSteps \/ ChanSteps

Fetch ==
  \/ concurrent_fetch_spawn
  \/ channel_fetch_spawn
  \/ FetchSteps

Next ==
  \/ Fetch
  \/ \E i \in Idx : EditUrl(i)
  \/ \E i \in Idx : EditVersion(i)

Spec == Init /\ [][Next]_vars

\* A sequence without its i-th element.
Drop(s, i) == [j \in 1..(Len(s) - 1) |-> IF j < i THEN s[j] ELSE s[j + 1]]

\* As EditUrl, for an entry taken out of the config: the coordinator
\* constructed anew over the same db path has one entry less, and the record
\* the dropped entry left stays in the store.
DropEntry(i) ==
  /\ mode = "idle"
  /\ passNo \in 1..(MaxPasses - 1)
  /\ pending = NoEdit
  /\ entries' = Drop(entries, i)
  /\ pc' = Drop(pc, i)
  /\ cv' = Drop(cv, i)
  /\ gets' = Drop(gets, i)
  /\ logs' = Drop(logs, i)
  /\ lastBody' = Drop(lastBody, i)
  /\ pending' = [field |-> "drop", i |-> i]
  /\ UNCHANGED <<opVars, db, cfgVars, mode, chan, cons, result, error, casn,
                 passNo, startDb, prevResult, edit, got, unit>>

NextDrop ==
  \/ Fetch
  \/ \E i \in Idx : DropEntry(i)

\* Passes with an entry dropped from the config between them.
SpecDrop == Init /\ [][NextDrop]_vars

(* ------------------- two coordinators, fresh caches ------------------- *)
\* A second coordinator is constructed (Fetcher::new) from the same config
\* over a fresh db path, once the first one's pass has returned Ok; the
\* store the first one left is kept for comparison.
FreshCache ==
  /\ mode = "idle"
  /\ passNo = 1
  /\ result = "ok"
  /\ ref = None
  /\ ref' = Some(db)
  /\ db' = EmptyDb
  /\ pc' = [i \in Idx |-> "done"]
  /\ cv' = [i \in Idx |-> <<>>]
  /\ result' = "none"
  /\ error' = None
  /\ gets' = [i \in Idx |-> 0]
  /\ logs' = [i \in Idx |-> "none"]
  /\ casn' = 0
  /\ passNo' = 0
  /\ startDb' = EmptyDb
  /\ prevResult' = "none"
  /\ lastBody' = [i \in Idx |-> None]
  /\ got' = None
  /\ UNCHANGED <<entries, cfgVars, mode, chan, cons, pending, edit, unit,
                 watch, upd, files>>

\* fetch(Channel) by the first coordinator, fetch(Concurrent) by the second.
NextEq ==
  \/ ref = None /\ channel_fetch_spawn
  \/ ref # None /\ concurrent_fetch_spawn
  \/ FetchSteps
  \/ FreshCache

SpecEq == Init /\ [][NextEq]_vars

(* --------------------------- the watch loop --------------------------- *)
\* The capacity of the channel between the file watcher and the loop.
QueueCap == 1

\* The two coordinators that watch a config: Fetcher (src/src/lib.rs) and
\* WatchFetcher (src/src/watcher.rs).
Impls == {"Fetcher", "WatchFetcher"}

\* A loop that is ready for the next event while a handler is still running.
Watching_busy == watch.st \in {"watching", "fetching"}

\* The loop is at rx.recv().await, between two events.

Watching == watch.st = "watching"

\* A db.clear() that leaves the store as it is.
clear_noop(d) == d

\* sled::Db::clear.
clear(d) == EmptyDb

\* watching(): the loop starts over the config the coordinator was built
\* from.
watching(impl) ==
  /\ watch.st = "off"
  /\ mode = "idle"
  /\ watch' = [st |-> "watching", impl |-> impl, config |-> entries,
               file |-> Some(entries), queue |-> <<>>, last |-> None]
  /\ UNCHANGED <<entries, db, cfgVars, passVars, pending, lastBody, got, unit,
                 upd, files, ref>>

\* The config file is rewritten with one more entry; the file watcher posts
\* a Modify event.
ModifyFile(e) ==
  /\ watch.st \in {"watching", "fetching"}
  /\ watch.file.some
  /\ Len(watch.file.v) < MaxEntries
  /\ Len(watch.queue) < QueueCap
  /\ watch' = [watch EXCEPT
                 !.file = Some(Append(watch.file.v, e)),
                 !.queue = Append(@, [kind |-> "Modify", added |-> e])]
  /\ UNCHANGED <<entries, db, cfgVars, passVars, pending, lastBody, got, unit,
                 upd, files, ref>>

\* The config file is removed; the file watcher posts a Remove event.
RemoveFile ==
  /\ watch.st \in {"watching", "fetching"}
  /\ watch.file.some
  /\ Len(watch.queue) < QueueCap
  /\ watch' = [watch EXCEPT !.file = None,
                            !.queue = Append(@, [kind |-> "Remove"])]
  /\ UNCHANGED <<entries, db, cfgVars, passVars, pending, lastBody, got, unit,
                 upd, files, ref>>

\* Any other event on the config path (access, create, ...).
OtherEvent ==
  /\ watch.st \in {"watching", "fetching"}
  /\ Len(watch.queue) < QueueCap
  /\ watch' = [watch EXCEPT !.queue = Append(@, [kind |-> "Other"])]
  /\ UNCHANGED <<entries, db, cfgVars, passVars, pending, lastBody, got, unit,
                 upd, files, ref>>

\* The config file is put back with the content the loop last loaded; the
\* file watcher posts a Create event.
CreateFile ==
  /\ watch.st \in {"watching", "fetching"}
  /\ ~watch.file.some
  /\ Len(watch.queue) < QueueCap
  /\ watch' = [watch EXCEPT !.file = Some(watch.config),
                            !.queue = Append(@, [kind |-> "Create"])]
  /\ UNCHANGED <<entries, db, cfgVars, passVars, pending, lastBody, got, unit,
                 upd, files, ref>>

\* The file watcher posts an error instead of an event.
ErrorItem ==
  /\ watch.st \in {"watching", "fetching"}
  /\ Len(watch.queue) < QueueCap
  /\ watch' = [watch EXCEPT !.queue = Append(@, [kind |-> "Error"])]
  /\ UNCHANGED <<entries, db, cfgVars, passVars, pending, lastBody, got, unit,
                 upd, files, ref>>

\* A pass of handle_event that runs over the reloaded config in both
\* coordinators.
PassEntries_reloaded(impl, reloaded) == reloaded

\* The entries the pass of handle_event runs over: Fetcher::concurrent_fetch
\* iterates self.entries, bound at construction; WatchFetcher's iterates
\* self.config.packages_owned(), the config just reloaded.
PassEntries(impl, reloaded) ==
  IF impl = "WatchFetcher" THEN reloaded ELSE entries

\* handle_event on Modify: reload the config, then concurrent_fetch.
handle_event_modify ==
  /\ Watching
  /\ mode = "idle"
  /\ watch.queue # <<>>
  /\ Head(watch.queue).kind = "Modify"
  /\ passNo < MaxPasses
  /\ IF ~watch.file.some
     THEN \* Config::from_file fails: handle_event returns Err, expect panics
          /\ watch' = [watch EXCEPT !.st = "dead", !.queue = Tail(@),
                                    !.last = Some(Head(watch.queue))]
          /\ UNCHANGED <<entries, passVars, pending, lastBody, got>>
     ELSE LET es == PassEntries(watch.impl, watch.file.v)
              ix == 1..Len(es)
          IN /\ watch' = [watch EXCEPT !.st = "fetching",
                                       !.config = watch.file.v,
                                       !.queue = Tail(@),
                                       !.last = Some(Head(watch.queue))]
             /\ entries' = es
             /\ mode' = "conc"
             /\ pc' = [i \in ix |-> "start"]
             /\ cv' = [i \in ix |-> <<>>]
             /\ chan' = <<>>
             /\ cons' = [st |-> "off", n |-> 0]
             /\ result' = "none"
             /\ error' = None
             /\ gets' = [i \in ix |-> 0]
             /\ logs' = [i \in ix |-> "none"]
             /\ casn' = 0
             /\ passNo' = passNo + 1
             /\ startDb' = db
             /\ prevResult' = result
             /\ edit' = pending
             /\ pending' = NoEdit
             /\ got' = None
             /\ lastBody' = [i \in ix |-> IF i \in Idx THEN lastBody[i]
                                          ELSE None]
  /\ UNCHANGED <<db, cfgVars, unit, upd, files, ref>>

\* concurrent_fetch has returned inside handle_event: Ok goes back to the
\* loop, Err reaches expect("Event handle error") and panics.
handle_event_return ==
  /\ watch.st = "fetching"
  /\ mode = "idle"
  /\ watch' = [watch EXCEPT !.st = IF result = "ok" THEN "watching"
                                   ELSE "dead"]
  /\ UNCHANGED <<entries, db, cfgVars, passVars, pending, lastBody, got, unit,
                 upd, files, ref>>

\* handle_event on Remove: self.db.clear().unwrap().
handle_event_remove ==
  /\ Watching
  /\ mode = "idle"
  /\ watch.queue # <<>>
  /\ Head(watch.queue).kind = "Remove"
  /\ \E storeOk \in BOOLEAN :
       IF storeOk
       THEN /\ db' = clear(db)
            /\ watch' = [watch EXCEPT !.queue = Tail(@),
                                      !.last = Some(Head(watch.queue))]
       ELSE /\ db' = db
            /\ watch' = [watch EXCEPT !.st = "dead", !.queue = Tail(@),
                                      !.last = Some(Head(watch.queue))]
  /\ UNCHANGED <<entries, cfgVars, passVars, pending, lastBody, got, unit,
                 upd, files, ref>>

\* A handler of the other event kinds that clears the store.
handle_event_other_clear ==
  /\ Watching
  /\ mode = "idle"
  /\ watch.queue # <<>>
  /\ Head(watch.queue).kind \in {"Other", "Create"}
  /\ db' = EmptyDb
  /\ watch' = [watch EXCEPT !.queue = Tail(@),
                            !.last = Some(Head(watch.queue))]
  /\ UNCHANGED <<entries, cfgVars, passVars, pending, lastBody, got, unit,
                 upd, files, ref>>

\* handle_event on any other event kind (Create, Access, ...): a debug line.
handle_event_other ==
  /\ Watching
  /\ mode = "idle"
  /\ watch.queue # <<>>
  /\ Head(watch.queue).kind \in {"Other", "Create"}
  /\ watch' = [watch EXCEPT !.queue = Tail(@),
                            !.last = Some(Head(watch.queue))]
  /\ UNCHANGED <<entries, db, cfgVars, passVars, pending, lastBody, got, unit,
                 upd, files, ref>>

\* An error item that ends the loop.
watch_error_item_dead ==
  /\ Watching
  /\ mode = "idle"
  /\ watch.queue # <<>>
  /\ Head(watch.queue).kind = "Error"
  /\ watch' = [watch EXCEPT !.st = "dead", !.queue = Tail(@),
                            !.last = Some(Head(watch.queue))]
  /\ UNCHANGED <<entries, db, cfgVars, passVars, pending, lastBody, got, unit,
                 upd, files, ref>>

\* The loop takes Err(e) off the channel: error!("Watch error: ..") and on
\* to the next item.
watch_error_item ==
  /\ Watching
  /\ mode = "idle"
  /\ watch.queue # <<>>
  /\ Head(watch.queue).kind = "Error"
  /\ watch' = [watch EXCEPT !.queue = Tail(@),
                            !.last = Some(Head(watch.queue))]
  /\ UNCHANGED <<entries, db, cfgVars, passVars, pending, lastBody, got, unit,
                 upd, files, ref>>

\* rx.recv() returns None, every sender being gone: the loop ends and watch
\* returns Ok(()).
watch_closed ==
  /\ Watching
  /\ mode = "idle"
  /\ watch.queue = <<>>
  /\ watch' = [watch EXCEPT !.st = "ended"]
  /\ UNCHANGED <<entries, db, cfgVars, passVars, pending, lastBody, got, unit,
                 upd, files, ref>>

\* The loop's own steps.
LoopSteps ==
  \/ handle_event_modify
  \/ handle_event_return
  \/ handle_event_remove
  \/ handle_event_other
  \/ watch_error_item
  \/ ConcSteps

NextWatch ==
  \/ watch.st = "off" /\ concurrent_fetch_spawn
  \/ \E impl \in Impls : watching(impl)
  \/ \E e \in EntrySet : ModifyFile(e)
  \/ RemoveFile
  \/ CreateFile
  \/ OtherEvent
  \/ ErrorItem
  \/ watch_closed
  \/ LoopSteps

SpecWatch == Init /\ [][NextWatch]_vars /\ WF_vars(LoopSteps)

(* ------------------------ direct cache access ------------------------- *)
\* Fetcher::get: the stored bytes decrypted as a whole, then decoded.
get(m, d, k) ==
  IF k \notin DOMAIN d THEN Ok(None)
  ELSE LET bytes == dec_or_clone(m, d[k], KeyBytes(k)) IN
       IF ~bytes.ok THEN bytes
       ELSE LET v == from_ivec(bytes.val) IN
            IF v.ok THEN Ok(Some(v.val)) ELSE v

\* Fetcher::pairs: every record decrypted as a whole and decoded; the
\* first failure is the outcome of the call.
pairs(m, d) ==
  IF \E k \in DOMAIN d : ~get(m, d, k).ok
  THEN get(m, d, CHOOSE k \in DOMAIN d : ~get(m, d, k).ok)
  ELSE Ok([k \in DOMAIN d |-> get(m, d, k).val.v])

\* WatchFetcher::get_all: as pairs, the values only, in key order.
get_all(m, d) ==
  LET p == pairs(m, d) IN
    IF ~p.ok THEN p
    ELSE LET RECURSIVE InOrder(_)
             InOrder(ks) ==
               IF ks = {} THEN <<>>
               ELSE LET k == CHOOSE x \in ks : \A y \in ks : x <= y
                    IN <<p.val[k]>> \o InOrder(ks \ {k})
         IN Ok(InOrder(DOMAIN d))

\* A caller reads the cache between passes.
GetOp(k) ==
  /\ mode = "idle"
  /\ passNo >= 1
  /\ got' = [op |-> "get", k |-> k, r |-> get(encryption_method, db, k)]
  /\ UNCHANGED <<opVars, entries, db, cfgVars, passVars, pending, lastBody,
                 unit>>

PairsOp ==
  /\ mode = "idle"
  /\ passNo >= 1
  /\ got' = [op |-> "pairs", r |-> pairs(encryption_method, db)]
  /\ UNCHANGED <<opVars, entries, db, cfgVars, passVars, pending, lastBody,
                 unit>>

GetAllOp ==
  /\ mode = "idle"
  /\ passNo >= 1
  /\ got' = [op |-> "get_all", r |-> get_all(encryption_method, db)]
  /\ UNCHANGED <<opVars, entries, db, cfgVars, passVars, pending, lastBody,
                 unit>>

(* ------------------------------ write_all ----------------------------- *)
\* Url::parse(url).path_segments().last(): the last segment of the url.
file_name(url) == <<url[Len(url)]>>

\* How far write_all gets with entry i: the record must be there
\* (unwrap), decode (from_ivec) and its payload decrypt (dec_or_clone).
wa_stage(i) ==
  LET k == entries[i].name IN
    IF k \notin DOMAIN db THEN "missing"
    ELSE LET v == from_ivec(db[k]) IN
         IF ~v.ok THEN "undecodable"
         ELSE IF ~dec_or_clone(encryption_method, v.val.response,
                               KeyBytes(k)).ok
         THEN "undecryptable"
         ELSE "ok"

wa_value(i) == from_ivec(db[entries[i].name]).val

wa_bytes(i) ==
  dec_or_clone(encryption_method, wa_value(i).response,
               KeyBytes(entries[i].name)).val

\* write_all(dir): the loop stops (panics) at the first entry it cannot
\* prepare; the writes spawned before that run on their own, and two
\* writes to one path land in either order.
WriteAllOp ==
  /\ mode = "idle"
  /\ passNo >= 1
  /\ files.st = "off"
  /\ LET bad == {i \in Idx : wa_stage(i) # "ok"}
         first == IF bad = {} THEN Len(entries) + 1
                  ELSE CHOOSE i \in bad : \A j \in bad : i <= j
         spawned == {i \in Idx : i < first}
         madeDir == \E i \in Idx :
                      i <= first /\ wa_stage(i) \in {"ok", "undecryptable"}
     IN \E W \in SUBSET spawned :
          /\ bad = {} => W = spawned
          /\ LET names == {file_name(wa_value(i).url) : i \in W} IN
             \E pick \in [names -> W] :
               /\ \A n \in names : file_name(wa_value(pick[n]).url) = n
               /\ files' = [st |-> "done",
                            out |-> IF bad = {} THEN "ok" ELSE "panic",
                            dir |-> madeDir,
                            tree |-> [n \in names |-> wa_bytes(pick[n])]]
  /\ UNCHANGED <<entries, db, cfgVars, passVars, pending, lastBody, got, unit,
                 watch, upd, ref>>

(* ------------------------------ setters ------------------------------- *)
ResponseMethods == {"Bytes", "Chunk", "BytesStream"}
NotifyMethods == {"Log", "ProgressBar", "Silent"}

\* The coordinator is configured after construction and before its first
\* pass.
Configuring == mode = "idle" /\ passNo = 0

set_encryption_method(m) ==
  /\ Configuring
  /\ encryption_method' = m
  /\ UNCHANGED <<opVars, entries, db, response_method, notify_method, passVars,
                 pending, lastBody, got, unit>>

set_response_method(r) ==
  /\ Configuring
  /\ response_method' = r
  /\ notify_method' = IF r \in {"Chunk", "BytesStream"} THEN "ProgressBar"
                      ELSE notify_method
  /\ UNCHANGED <<opVars, entries, db, encryption_method, passVars, pending,
                 lastBody, got, unit>>

set_notify_method(n) ==
  /\ Configuring
  /\ notify_method' = n
  /\ UNCHANGED <<opVars, entries, db, encryption_method, response_method,
                 passVars,
                 pending, lastBody, got, unit>>

NextEnc ==
  \/ Fetch
  \/ \E m \in Methods : set_encryption_method(m)
  \/ \E k \in Names : GetOp(k)
  \/ PairsOp
  \/ GetAllOp
  \/ WriteAllOp

\* Configs whose entries all point at one url.
EncEntrySet == {e \in EntrySet : e.url = <<B(1)>>}

InitEnc ==
  /\ entries \in UNION {[1..n -> EncEntrySet] : n \in 0..MaxEntries}
  /\ encryption_method = "None"
  /\ InitCommon
  /\ unit = [st |-> "off"]
  /\ watch = WatchOff

SpecEnc == InitEnc /\ [][NextEnc]_vars

\* Pipelined passes alone; the runtime keeps scheduling the producers and
\* the consumer, and every GET terminates.
NextChan == channel_fetch_spawn \/ ChanSteps

SpecChan == InitEnc /\ [][NextChan]_vars /\ WF_vars(ChanSteps)

\* The coordinator's response and notify methods are set, then it fetches.
NextCfg ==
  \/ Fetch
  \/ \E r \in ResponseMethods : set_response_method(r)
  \/ \E n \in NotifyMethods : set_notify_method(n)

SpecCfg == InitEnc /\ [][NextCfg]_vars

\* The coordinator's notify method is set before it starts watching.
NextWatchCfg == NextWatch \/ \E n \in NotifyMethods : set_notify_method(n)

SpecWatchCfg == InitEnc /\ [][NextWatchCfg]_vars

(* ------------------- update through a cloned handle ------------------- *)
\* The values a caller passes to update: a version the config may or may
\* not hold, a url no fetched record holds, and a payload no server returns.
NewValues == [version : Versions \cup {<<B(3)>>}, url : {<<B(2)>>},
              response : {<<B(7)>>}]

\* Fetcher::update up to the decision: db.get(key.bytes())?, from_ivec, and
\* is_same against the value passed in.  The handle is a clone, so a pass
\* on the same store may be running.
update_read(k, v) ==
  /\ passNo >= 1
  /\ upd.st \in {"off", "done"}
  /\ upd.n < MaxUpdates
  /\ LET u == [st |-> "done", k |-> k, v |-> v, cv |-> <<>>, out |-> "ok",
               n |-> upd.n + 1]
     IN \/ upd' = [u EXCEPT !.out = "err"]            \* db.get(..)? fails
        \/ /\ k \notin DOMAIN db
           /\ upd' = u
        \/ /\ k \in DOMAIN db
           /\ LET cur == from_ivec(db[k]) IN
              IF ~cur.ok
              THEN upd' = [u EXCEPT !.out = "panic"]
              ELSE IF ~is_same(v, cur.val)
              THEN upd' = [u EXCEPT !.st = "cas", !.cv = db[k], !.out = "none"]
              ELSE upd' = u
  /\ UNCHANGED <<watch, files, ref, entries, db, cfgVars, passVars, pending,
                 lastBody, got, unit>>

\* Fetcher::update, the write: compare_and_swap(key, Some(cv_bytes),
\* Some(value.bytes()))?, its inner result dropped.
update_cas ==
  /\ upd.st = "cas"
  /\ \E storeOk \in BOOLEAN :
       IF ~storeOk
       THEN /\ upd' = [upd EXCEPT !.st = "done", !.out = "err"]
            /\ UNCHANGED db
       ELSE /\ db' = compare_and_swap(db, upd.k, upd.cv, Bytes(upd.v))
            /\ upd' = [upd EXCEPT !.st = "done", !.out = "ok"]
  /\ UNCHANGED <<watch, files, ref, entries, cfgVars, passVars, pending,
                 lastBody, got, unit>>

UpdateOp == (\E k \in Names, v \in NewValues : update_read(k, v)) \/ update_cas

\* Passes over the store while update is called through a clone.
NextUpd == Fetch \/ UpdateOp

SpecUpd == InitEnc /\ [][NextUpd]_vars

\* One per-task pass, with updates through a clone, a cipher having been
\* installed beforehand.
NextUpdEnc ==
  \/ passNo = 0 /\ concurrent_fetch_spawn
  \/ ConcSteps
  \/ UpdateOp
  \/ \E m \in Methods : set_encryption_method(m)

SpecUpdEnc == InitEnc /\ [][NextUpdEnc]_vars

(* ---------------------- the identity on its own ----------------------- *)
\* GHValue::is_same: owner, repo, tag and asset.
GHValue_is_same(v, other) ==
  /\ v.owner = other.owner
  /\ v.repo = other.repo
  /\ v.tag = other.tag
  /\ v.asset = other.asset

\* SimpleValue and GHValue values, with and without a payload.
SimpleValues == [version : Versions, url : Urls, response : {<<>>, <<B(1)>>}]
GHValues == [owner : {1, 2}, repo : {1, 2}, tag : {1, 2}, asset : {1, 2},
             response : {<<>>, <<B(1)>>}]

\* EntryValue::is_same as implemented for the shape of the two values.
EntryValue_is_same(shape, v, other) ==
  IF shape = "GHValue" THEN GHValue_is_same(v, other) ELSE is_same(v, other)

InitIdent ==
  /\ entries = <<>>
  /\ encryption_method = "None"
  /\ InitCommon
  /\ watch = WatchOff
  /\ \/ unit \in [st : {"values"}, shape : {"SimpleValue"},
                  a : SimpleValues, b : SimpleValues, c : SimpleValues]
     \/ unit \in [st : {"values"}, shape : {"GHValue"},
                  a : GHValues, b : GHValues, c : GHValues]

\* is_same called on each pair of three values of one shape.
is_same_unit ==
  /\ unit.st = "values"
  /\ unit' = [st |-> "compared", shape |-> unit.shape,
              a |-> unit.a, b |-> unit.b, c |-> unit.c,
              aa |-> EntryValue_is_same(unit.shape, unit.a, unit.a),
              ab |-> EntryValue_is_same(unit.shape, unit.a, unit.b),
              ba |-> EntryValue_is_same(unit.shape, unit.b, unit.a),
              bc |-> EntryValue_is_same(unit.shape, unit.b, unit.c),
              ac |-> EntryValue_is_same(unit.shape, unit.a, unit.c)]
  /\ UNCHANGED <<opVars, entries, db, cfgVars, passVars, pending, lastBody,
                 got>>

NextIdent == is_same_unit

SpecIdent == InitIdent /\ [][NextIdent]_vars

(* ----------------------- the cipher on its own ------------------------ *)
\* Plaintexts of up to MaxData bytes.
Datas == UNION {[1..n -> {B(1), B(2)}] : n \in 0..MaxData}

\* Keys of the required size, and keys that are too short.
Keys == {Rep(KeySize, B(1)), Rep(KeySize, B(2)), Rep(KeySize - 1, B(1)),
         <<B(1)>>}

InitCipher ==
  /\ entries = <<>>
  /\ encryption_method = "None"
  /\ InitCommon
  /\ watch = WatchOff
  /\ unit \in [st : {"in"}, m : Methods, data : Datas, key : Keys]

\* method.encrypt(data, key), the generator drawing the nonce.
unit_encrypt ==
  /\ unit.st = "in"
  /\ \E nonce \in Nonces :
       unit' = [st |-> "enc", m |-> unit.m, data |-> unit.data,
                key |-> unit.key, nonce |-> nonce,
                ct |-> encrypt(unit.m, unit.data, unit.key, nonce)]
  /\ UNCHANGED <<opVars, entries, db, cfgVars, passVars, pending, lastBody,
                 got>>

\* method.decrypt(envelope, key) on what encrypt returned.
unit_decrypt ==
  /\ unit.st = "enc"
  /\ unit.ct.ok
  /\ unit' = [st |-> "dec", m |-> unit.m, data |-> unit.data,
              key |-> unit.key, nonce |-> unit.nonce, ct |-> unit.ct,
              out |-> decrypt(unit.m, unit.ct.val, unit.key)]
  /\ UNCHANGED <<opVars, entries, db, cfgVars, passVars, pending, lastBody,
                 got>>

NextCipher == unit_encrypt \/ unit_decrypt

SpecCipher == InitCipher /\ [][NextCipher]_vars

(* ------------------------------ claims -------------------------------- *)
\* The entry's post-condition: the store holds, under the entry's key, a
\* record that decodes to a value identity-equal to the entry's value.
PostCond(i) ==
  LET k == entries[i].name IN
    /\ k \in DOMAIN db
    /\ Deserialize(db[k]).ok
    /\ is_same(EntryValue(entries[i]), Deserialize(db[k]).val)

DistinctKeys ==
  \A i, j \in Idx : i # j => entries[i].name # entries[j].name

\* A pass has ended and the entry list is still the one it ran over.
PassEnded == mode = "idle" /\ passNo >= 1 /\ pending = NoEdit

\* The pass is a second pass in a row: the pass before it completed
\* successfully and the config was not edited in between.
SecondInARow == passNo >= 2 /\ prevResult = "ok" /\ edit = NoEdit

\* C1: a second pass in a row issues no GET and leaves the store byte for
\* byte as the first pass left it, for every entry list and either mode.
C1_Idempotence ==
  SecondInARow => /\ \A i \in Idx : gets[i] = 0
                  /\ db = startDb

\* C2: when a pass completes successfully, every entry of the list has its
\* post-condition, whatever the store held before and in either mode.
C2_PostCondition ==
  (PassEnded /\ result = "ok") => \A i \in Idx : PostCond(i)

\* C3: after a successful pass with no cipher, get(e.key()) returns a value
\* identity-equal to e.value() whose payload is the body of the last
\* successful GET for e.
C3_RoundTrip ==
  (PassEnded /\ result = "ok" /\ encryption_method = "None") =>
    \A i \in Idx :
      LET g == get(encryption_method, db, entries[i].name) IN
        /\ g.ok
        /\ g.val.some
        /\ is_same(EntryValue(entries[i]), g.val.v)
        /\ lastBody[i].some
        /\ g.val.v.response = lastBody[i].v

\* C4: when only the url of one entry changed since a successful pass, the
\* next pass issues no GET for that entry and leaves its stored record as
\* it was.
C4_NonIdentityEdit ==
  (passNo >= 2 /\ prevResult = "ok" /\ edit.field = "url") =>
    LET k == entries[edit.i].name IN
      /\ gets[edit.i] = 0
      /\ k \in DOMAIN db
      /\ k \in DOMAIN startDb
      /\ db[k] = startDb[k]

\* C5: when only the version of one entry changed since a successful pass,
\* the next pass, once completed, has issued exactly one GET for that entry
\* and none for the others, has applied exactly one compare-and-swap, and
\* the record under the key carries the new version and the new body.
C5_IdentityEdit ==
  (PassEnded /\ passNo >= 2 /\ prevResult = "ok" /\ result = "ok"
     /\ edit.field = "version") =>
    LET e == entries[edit.i] IN
      /\ gets[edit.i] = 1
      /\ \A j \in Idx \ {edit.i} : gets[j] = 0
      /\ casn = 1
      /\ PostCond(edit.i)
      /\ Deserialize(db[e.name]).val.response = ServerBody(e.url, passNo)

FailedEntries == {i \in Idx : pc[i] \in {"failed", "panicked"}}

\* C6: after a pass in which exactly one entry's processing failed, every
\* other entry has its post-condition, in either mode.
C6_OthersPreserved ==
  (PassEnded /\ Cardinality(FailedEntries) = 1) =>
    \A j \in Idx \ FailedEntries : PostCond(j)

\* The value the fetch path builds for entry i from the body it fetched.
Fetched(i) == set_response(EntryValue(entries[i]), lastBody[i].v)

CipherOn == encryption_method # "None"

\* C7: with a cipher installed, get, pairs and get_all return each record
\* with the plaintext payload that was fetched, as they do without cipher.
C7_EncryptionTransparency ==
  (mode = "idle" /\ result = "ok" /\ CipherOn /\ got # None) =>
    /\ got.r.ok
    /\ got.op = "get" /\ got.k \in DOMAIN db =>
         /\ got.r.val.some
         /\ \E i \in Idx : /\ entries[i].name = got.k
                           /\ lastBody[i].some
                           /\ got.r.val.v = Fetched(i)
    /\ got.op = "pairs" =>
         \A k \in DOMAIN db :
           \E i \in Idx : /\ entries[i].name = k
                          /\ lastBody[i].some
                          /\ got.r.val[k] = Fetched(i)
    /\ got.op = "get_all" =>
         \A n \in 1..Len(got.r.val) :
           \E i \in Idx : lastBody[i].some /\ got.r.val[n] = Fetched(i)

\* C8: after a successful pass every stored record is, under the entry's
\* key bytes, the value's encoding verbatim when no cipher is installed,
\* and nonce || sealed(value's encoding) under the key bytes when one is.
C8_OnDiskRecord ==
  (PassEnded /\ result = "ok") =>
    \A k \in DOMAIN db :
      \E i \in Idx :
        /\ entries[i].name = k
        /\ lastBody[i].some
        /\ IF CipherOn
           THEN \E n \in Nonces :
                  db[k] = n \o Seal(KeyBytes(k), n, Bytes(Fetched(i)))
           ELSE db[k] = Bytes(Fetched(i))

\* C9: for a key of the required size encrypt returns the 12-byte nonce
\* followed by the sealed data, decrypt takes the first 12 bytes as the
\* nonce, and decrypt(encrypt(d, k), k) = d.
C9_CipherRoundTrip ==
  /\ (unit.st \in {"enc", "dec"} /\ ValidKey(unit.key)) =>
       /\ unit.ct.ok
       /\ unit.ct.val = unit.nonce \o Seal(unit.key, unit.nonce, unit.data)
       /\ SubSeq(unit.ct.val, 1, NONCE_SIZE) = unit.nonce
  /\ (unit.st = "dec" /\ ValidKey(unit.key)) => unit.out = Ok(unit.data)

\* C10: whenever the notify method is ProgressBar the response method is
\* Chunk or BytesStream.
C10_SetterInvariant ==
  notify_method = "ProgressBar" => response_method \in {"Chunk", "BytesStream"}

\* C16: fetch(Concurrent) returns only once every spawned task has ended,
\* returns Ok exactly when all of them succeeded, and otherwise returns the
\* error of the first failed task in entry order.
C16_PerTaskFailure ==
  [][(mode = "conc" /\ mode' = "idle") =>
       /\ \A i \in Idx : pc[i] \in {"done", "failed", "panicked"}
       /\ (result' = "ok") <=> (\A i \in Idx : pc[i] = "done")
       /\ result' \in {"ok", "err"}
       /\ result' = "ok" => error' = None
       /\ result' = "err" =>
            /\ error'.some
            /\ error'.v.i \in FailedEntries
            /\ error'.v.how = pc[error'.v.i]
            /\ \A j \in Idx : j < error'.v.i => pc[j] = "done"]_vars

\* A Concurrent pass in which both tasks failed has returned the first one's
\* error.
C16_Witness ==
  /\ mode = "idle"
  /\ result = "err"
  /\ Len(entries) = 2
  /\ pc = <<"failed", "failed">>
  /\ error = Some([i |-> 1, how |-> "failed"])

\* C17: when an entry fails in fetch(Channel), in a producer or in the
\* consumer, fetch returns an error to its caller.
C17_PipelinedFailure ==
  (mode = "idle" /\ \E i \in Idx : pc[i] \in {"failed", "panicked"}) =>
    result = "err"

\* Entry i has a GET request in flight.
InFlight(i) ==
  \/ mode = "conc" /\ pc[i] \in {"get_miss", "get_stale"}
  \/ mode = "chan" /\ pc[i] = "get"
  \/ mode = "chan" /\ cons.st = "get" /\ cons.i = i

\* C18: no two GET requests are in flight at the same time for the same key
\* bytes, for every entry list and in either mode.
C18_PerKeyExclusivity ==
  \A i, j \in Idx :
    (i # j /\ InFlight(i) /\ InFlight(j)) =>
      KeyBytes(entries[i].name) # KeyBytes(entries[j].name)

\* C11: from a fresh cache, the same entry list and the same server, a
\* successful fetch(Channel) and a successful fetch(Concurrent) leave the
\* same store, byte for byte, whatever the interleaving.
C11_ModeEquivalence ==
  (ref # None /\ mode = "idle" /\ passNo = 1 /\ result = "ok") => db = ref.v

\* The last event the loop handled was a Modify that appended entry
\* watch.last.v.added, under a key that had no record, to a config whose
\* other entries all had theirs; the pass has returned Ok and the loop is
\* Watching again.
ModifyHandled ==
  /\ Watching
  /\ mode = "idle"
  /\ result = "ok"
  /\ watch.last # None
  /\ watch.last.v.kind = "Modify"
  /\ watch.file.some
  /\ watch.config = watch.file.v
  /\ watch.last.v.added = watch.config[Len(watch.config)]
  /\ watch.last.v.added.name \notin DOMAIN startDb
  /\ \A i \in 1..(Len(watch.config) - 1) :
       watch.config[i].name \in DOMAIN startDb

\* C12: after a Modify that appended one entry has been handled, the store
\* has gained exactly one record, the one of the appended entry.
C12_WatchModify ==
  ModifyHandled =>
    LET e == watch.last.v.added IN
      /\ DOMAIN db = DOMAIN startDb \cup {e.name}
      /\ Deserialize(db[e.name]).ok
      /\ is_same(EntryValue(e), Deserialize(db[e.name]).val)

\* C13: handling a Remove event issues no GET and starts no pass and,
\* unless db.clear() itself fails, leaves the store empty and the loop
\* Watching; a Remove at the head of the queue is eventually handled.
C13_WatchRemove ==
  /\ [][(Watching /\ watch.queue # <<>> /\ Head(watch.queue).kind = "Remove"
           /\ watch'.queue # watch.queue) =>
          /\ gets' = gets
          /\ passNo' = passNo
          /\ mode' = "idle"
          /\ watch'.st # "dead" => (watch'.st = "watching" /\ db' = EmptyDb)]_vars
  /\ (Watching /\ mode = "idle" /\ watch.queue # <<>>
        /\ Head(watch.queue).kind = "Remove")
       ~> (watch.last = Some([kind |-> "Remove"]))

\* A Remove event has been handled after a pass over two entries had
\* returned Ok: the records it left are gone.
C13_Witness ==
  /\ Watching
  /\ watch.last = Some([kind |-> "Remove"])
  /\ passNo = 1
  /\ result = "ok"
  /\ Len(entries) = 2
  /\ db = EmptyDb

\* C15: after a successful pass write_all(dir) returns Ok, has created dir
\* if there was anything to write, and has written for every entry the file
\* named by the last segment of the entry's url, holding the plaintext
\* payload fetched for an entry of that file name; with or without cipher.
C15_Materialization ==
  (files.st = "done" /\ mode = "idle" /\ result = "ok") =>
    /\ files.out = "ok"
    /\ Idx # {} => files.dir
    /\ \A i \in Idx :
         LET n == file_name(entries[i].url) IN
           /\ n \in DOMAIN files.tree
           /\ \E j \in Idx : /\ file_name(entries[j].url) = n
                             /\ lastBody[j].some
                             /\ files.tree[n] = lastBody[j].v

\* The version under which the record of key k decodes, <<>> if it does not.
StoredVersion(d, k) ==
  IF k \in DOMAIN d /\ Deserialize(d[k]).ok
  THEN Deserialize(d[k]).val.version ELSE <<>>

\* Every key other than k holds in d2 what it held in d1.
OthersKept(d1, d2, k) ==
  /\ DOMAIN d2 = DOMAIN d1
  /\ \A x \in DOMAIN d1 : x # k => d2[x] = d1[x]

Mismatch(d, k, old) == k \notin DOMAIN d \/ d[k] # old

\* C19: when the compare-and-swap that ends an entry's processing finds
\* other bytes than the ones observed, the processing completes without an
\* error, the store is left as the other writer made it, no further request
\* is issued, and an entry that has completed is not processed again in the
\* same pass.
C19_CasMismatchAbsorbed ==
  [][/\ \A i \in Idx :
          (/\ mode = "conc" /\ pc[i] = "get_stale" /\ pc'[i] = "done"
           /\ Mismatch(db, entries[i].name, cv[i]))
          => (db' = db /\ gets' = gets /\ mode' = "conc")
     /\ (/\ mode = "chan" /\ cons.st = "get" /\ mode' = "chan"
         /\ cons'.st = "off"
         /\ Mismatch(db, entries[cons.i].name, cons.cv))
        => (db' = db /\ gets' = gets /\ result' = result)
     /\ \A i \in Idx :
          (mode = "conc" /\ mode' = "conc" /\ pc[i] = "done")
          => (pc'[i] = "done" /\ gets'[i] = gets[i])]_vars

\* C19 witness: a pass over one entry has returned Ok after a request on the
\* stale path whose compare-and-swap replaced nothing, an update having
\* written in between.
C19_Witness ==
  /\ mode = "idle"
  /\ result = "ok"
  /\ Len(entries) = 1
  /\ entries[1].name \in DOMAIN startDb
  /\ gets[1] = 1
  /\ casn = 0
  /\ upd.st = "done"
  /\ db[entries[1].name] = Bytes(upd.v)

\* C20: an operation whose compare-and-swap has been made ends with its
\* decision applied to the current record: when the processing of an entry
\* on the stale path completes, or an update returns Ok, the record under
\* the key has the identity of the value the operation was writing.
C20_CasRetry ==
  [][/\ \A i \in Idx :
          (mode = "conc" /\ pc[i] = "get_stale" /\ pc'[i] = "done")
          => StoredVersion(db', entries[i].name) = entries[i].version
     /\ (upd.st = "cas" /\ upd'.st = "done" /\ upd'.out = "ok")
        => StoredVersion(db', upd.k) = upd.v.version]_vars

\* The entries of a concurrent pass that went down the stale path and made
\* their compare-and-swap: the key was stored when the pass began, a GET was
\* sent and the task returned Ok.
StaleDone == {i \in Idx : /\ pc[i] = "done"
                          /\ gets[i] = 1
                          /\ entries[i].name \in DOMAIN startDb}

\* Some compare-and-swap of the pass replaced nothing.
LostCas == casn < Cardinality(StaleDone)

\* C21: a concurrent pass in which a stale-path compare-and-swap lost
\* against another writer of the same key does not return Ok.
C21_LostWriterAborts ==
  (mode = "idle" /\ passNo >= 1 /\ LostCas) => result # "ok"

\* C22: while handle_event runs the pass of a Modify event, the pass is a
\* concurrent one and every entry whose handler has passed its lookup has
\* written its log line, whatever notify method was set before watching.
C22_WatchPassConfig ==
  watch.st = "fetching" =>
    /\ mode \in {"conc", "idle"}
    /\ \A i \in Idx :
         pc[i] \in {"get_miss", "get_stale", "done"} => logs[i] # "none"

\* C23: every compare-and-swap of fetch and update expects the bytes its
\* identity check read.  The lookup of a stale entry keeps the bytes under
\* the key, which decode to another version; the write that follows changes
\* the store only if the record is still those bytes, and then the record
\* becomes the writer's whole value and every other writer still holding
\* the same prior finds a mismatch; the same for the consumer of a pipelined
\* pass and for update.
C23_NoSilentOverwrite ==
  [][/\ \A i \in Idx :
          LET k == entries[i].name IN
          /\ (mode = "conc" /\ pc[i] = "start" /\ pc'[i] = "get_stale") =>
               /\ k \in DOMAIN db
               /\ cv'[i] = db[k]
               /\ StoredVersion(db, k) # entries[i].version
          /\ (mode = "conc" /\ pc[i] = "get_stale" /\ pc'[i] # pc[i]
              /\ db' # db) =>
               /\ k \in DOMAIN db
               /\ db[k] = cv[i]
               /\ db' = [db EXCEPT ![k] =
                           Bytes(set_response(EntryValue(entries[i]),
                                              lastBody'[i].v))]
               /\ \A j \in Idx \ {i} :
                    (/\ entries[j].name = k
                     /\ pc[j] = "get_stale"
                     /\ cv[j] = cv[i]) => Mismatch(db', k, cv[j])
     /\ (mode = "chan" /\ cons.st = "off" /\ cons'.st = "get") =>
          /\ entries[cons'.i].name \in DOMAIN db
          /\ cons'.cv = db[entries[cons'.i].name]
     /\ (mode = "chan" /\ cons.st = "get" /\ cons'.st = "off" /\ db' # db) =>
          /\ entries[cons.i].name \in DOMAIN db
          /\ db[entries[cons.i].name] = cons.cv
          /\ db' = [db EXCEPT ![entries[cons.i].name] =
                      Bytes(set_response(EntryValue(entries[cons.i]),
                                         lastBody'[cons.i].v))]
     /\ (upd.st = "cas" /\ upd'.st = "done" /\ db' # db) =>
          /\ db[upd.k] = upd.cv
          /\ db' = [db EXCEPT ![upd.k] = Bytes(upd.v)]]_vars

\* C23 witness: two tasks of one pass read the same prior under one key,
\* both sent their GET and returned Ok, and exactly one swap was applied.
C23_Witness ==
  /\ mode = "idle"
  /\ result = "ok"
  /\ Len(entries) = 2
  /\ entries[1].name = entries[2].name
  /\ StaleDone = {1, 2}
  /\ cv[1] = cv[2]
  /\ casn = 1

\* The step is the store write of entry i's handler.
IsWriter(i) ==
  \/ mode = "conc" /\ pc[i] \in {"get_miss", "get_stale"}
  \/ /\ mode = "chan" /\ cons.st = "off" /\ chan # <<>>
     /\ Head(chan).i = i /\ Head(chan).bytes.some
  \/ mode = "chan" /\ cons.st = "get" /\ cons.i = i

\* C24: in both dispatch modes, with or without a cipher, a step of a pass
\* that changes the store is the write of an entry whose GET was sent in an
\* earlier step of the same pass and whose body has been read whole in this
\* pass; the record written carries that body, sealed under the entry's key
\* when a cipher is installed.
C24_PerEntryOrdering ==
  [][(mode # "idle" /\ db' # db) =>
       \E i \in Idx :
         LET e == entries[i] IN
         /\ IsWriter(i)
         /\ gets[i] = 1
         /\ lastBody'[i] =
              Some(resp_bytes(response_method, ServerBody(e.url, passNo)))
         /\ \E nonce \in NonceChoice(encryption_method) :
              LET enc == encrypt_bytes(encryption_method, lastBody'[i].v,
                                       KeyBytes(e.name), nonce)
              IN /\ enc.ok
                 /\ db' = insert(db, e.name,
                                 Bytes([version |-> e.version, url |-> e.url,
                                        response |-> enc.val]))]_vars

\* C24 witness: a pass under a cipher has returned Ok with a GET sent and a
\* record written for each of its two entries.
C24_Witness ==
  /\ mode = "idle"
  /\ result = "ok"
  /\ CipherOn
  /\ Len(entries) = 2
  /\ \A i \in Idx : gets[i] = 1 /\ entries[i].name \in DOMAIN db
  /\ db # startDb

\* The producers that hold a permit of the semaphore: their GET is pending.
ProducersInFlight == {i \in Idx : pc[i] = "get"}

Put(d, k, v) == [x \in DOMAIN d \cup {k} |-> IF x = k THEN v ELSE d[x]]

\* C26: in a pipelined pass a producer's step leaves the store unchanged;
\* the store changes only in a step of the consumer, which takes a message
\* only when it is not handling another; a message with a payload, once
\* handled, has been inserted whatever was stored under its key; a message
\* without payload leaves the store unchanged in the step that takes it, and
\* leads to a GET exactly when the key is stored under another version.
C26_WriteSerialization ==
  [][mode = "chan" =>
       /\ (\E i \in Idx : pc'[i] # pc[i] /\ pc[i] \in {"start", "get"})
          => db' = db
       /\ db' # db =>
            \/ cons.st = "off" /\ chan # <<>> /\ Head(chan).bytes.some
            \/ cons.st = "get"
       /\ Len(chan') < Len(chan) /\ mode' = "chan" =>
            LET msg == Head(chan)
                e == entries[msg.i]
            IN /\ cons.st = "off"
               /\ chan' = Tail(chan)
               /\ msg.bytes.some =>
                    /\ db' = Put(db, e.name,
                                 Bytes([version |-> e.version, url |-> e.url,
                                        response |-> msg.bytes.v]))
                    /\ cons'.st = "off" /\ cons'.n = cons.n + 1
                    /\ gets' = gets
               /\ ~msg.bytes.some =>
                    /\ db' = db
                    /\ IF /\ e.name \in DOMAIN db
                          /\ StoredVersion(db, e.name) # e.version
                       THEN /\ cons'.st = "get" /\ cons'.i = msg.i
                            /\ gets'[msg.i] = gets[msg.i] + 1
                       ELSE /\ cons'.st = "off" /\ cons'.n = cons.n + 1
                            /\ gets' = gets]_vars

\* C26 witness: a first pipelined pass over two entries with one key has
\* returned Ok; both producers fetched, and the consumer inserted the first
\* payload and then the second over it.
C26_Witness ==
  /\ mode = "idle"
  /\ result = "ok"
  /\ passNo = 1
  /\ Len(entries) = 2
  /\ entries[1].name = entries[2].name
  /\ entries[1].version # entries[2].version
  /\ gets = <<1, 1>>
  /\ cons.n = 2

\* The loop takes the item at the head of the event channel in this step.
Takes(kinds) ==
  /\ Watching
  /\ mode = "idle"
  /\ watch.queue # <<>>
  /\ Head(watch.queue).kind \in kinds
  /\ watch'.queue = Tail(watch.queue)
  /\ watch'.last = Some(Head(watch.queue))

\* C27: once a Remove event has cleared the store, the handling of the next
\* Create or Modify event, the config file being back, reloads the config
\* and starts a pass.
C27_RestartAfterRemove ==
  [][(/\ Takes({"Create", "Modify"})
      /\ watch.last # None
      /\ watch.last.v.kind \in {"Remove", "Create"}
      /\ db = EmptyDb
      /\ watch.file.some
      /\ passNo < MaxPasses)
     => (/\ watch'.st = "fetching"
         /\ watch'.config = watch.file.v
         /\ mode' = "conc"
         /\ passNo' = passNo + 1)]_vars

\* C28: the handling of an event that is neither Modify nor Remove leaves
\* the store, the loaded config, the config file and the entry list as they
\* are, sends no GET, starts no pass, and goes back to Watching.
C28_OtherEventsIgnored ==
  [][Takes({"Other", "Create"})
     => (/\ db' = db
         /\ entries' = entries
         /\ watch'.config = watch.config
         /\ watch'.file = watch.file
         /\ gets' = gets
         /\ passNo' = passNo
         /\ mode' = "idle"
         /\ result' = result
         /\ watch'.st = "watching")]_vars

\* C28 witness: the loop is Watching again after an event of another kind,
\* over a store that holds the records of two entries.
C28_Witness ==
  /\ Watching
  /\ watch.last = Some([kind |-> "Other"])
  /\ Len(entries) = 2
  /\ \A i \in Idx : entries[i].name \in DOMAIN db

\* C29: the loop leaves Watching / handling for good only by the channel
\* being closed, the loop then ending normally, or by a failure of the
\* handler of one event (the reload finds no config file, the pass returns
\* an error, the store cannot be cleared), the loop then ending by panic;
\* once ended it does nothing more; an error item taken off the channel
\* changes nothing else and the loop is Watching for the next item.
C29_WatchTermination ==
  [][/\ (watch.st \in {"watching", "fetching"}
         /\ watch'.st \notin {"watching", "fetching"})
        => \/ /\ watch'.st = "ended"
              /\ watch.queue = <<>>
              /\ watch.st = "watching"
           \/ /\ watch'.st = "dead"
              /\ \/ /\ watch.st = "watching"
                    /\ Head(watch.queue).kind = "Modify"
                    /\ ~watch.file.some
                 \/ /\ watch.st = "fetching"
                    /\ mode = "idle"
                    /\ result = "err"
                 \/ /\ watch.st = "watching"
                    /\ Head(watch.queue).kind = "Remove"
                    /\ db' = db
     /\ watch.st \in {"dead", "ended"} => watch' = watch
     /\ (watch.st = "fetching" /\ mode = "idle" /\ result = "ok")
        => watch'.st \in {"fetching", "watching"}
     /\ Takes({"Error"})
        => (/\ watch' = [watch EXCEPT !.queue = Tail(@),
                                      !.last = Some([kind |-> "Error"])]
            /\ UNCHANGED <<entries, db, cfgVars, passVars, pending, lastBody,
                           got, upd, files>>)]_vars

\* C29 witness: the loop is Watching after an error item, the store and
\* the result of the pass before it still in place.
C29_Witness ==
  /\ Watching
  /\ watch.last = Some([kind |-> "Error"])
  /\ result = "ok"
  /\ db # EmptyDb

\* Two values of one shape agree on every field but the payload.
SameButPayload(v, other) ==
  \A f \in DOMAIN v \ {"response"} : v[f] = other[f]

\* C30: for both value shapes is_same holds of two values exactly when they
\* agree on every field but the payload, and it is reflexive, symmetric and
\* transitive.
C30_IdentityPredicate ==
  unit.st = "compared" =>
    /\ unit.ab <=> SameButPayload(unit.a, unit.b)
    /\ unit.aa
    /\ unit.ab <=> unit.ba
    /\ (unit.ab /\ unit.bc) => unit.ac

\* C31: Entry list immutability: the entry list of a Fetcher is the one it
\* was built with; no step of the Fetcher, the handling of a watch event
\* with its reload of the config and its pass included, changes the list
\* the passes iterate over.  (WatchFetcher keeps no entry list: its pass
\* iterates the config it has just reloaded.)
C31_EntryListFixed ==
  [][watch.impl # "WatchFetcher" => entries' = entries]_vars

\* A Fetcher is in the pass of a Modify event whose reloaded config differs
\* from its entry list, and a task of the pass has already run.
C31_Witness ==
  /\ watch.impl = "Fetcher"
  /\ watch.st = "fetching"
  /\ watch.config # entries
  /\ \E i \in Idx : pc[i] = "done"

\* C32: At most one GET per entry per pass: in both dispatch modes no
\* element of the entry list causes more than one GET request during one
\* pass; in Pipelined mode the GET counted for an entry is either its
\* producer's or the consumer's, never both.
C32_OneGetPerEntry ==
  /\ \A i \in Idx : gets[i] <= 1
  /\ mode = "chan" /\ cons.st = "get" => startDb # EmptyDb
  /\ mode = "chan" =>
        \A j \in 1..Len(chan) : chan[j].bytes.some => gets[chan[j].i] = 1

\* In a Pipelined pass an entry was fetched by its producer and its message
\* has been handled by the consumer, which stored the record.
C32_Witness ==
  /\ mode = "chan"
  /\ \E i \in Idx :
       /\ gets[i] = 1
       /\ pc[i] = "sent"
       /\ entries[i].name \notin DOMAIN startDb
       /\ entries[i].name \in DOMAIN db
       /\ \A j \in 1..Len(chan) : chan[j].i # i
       /\ cons.st = "off"

\* The keys of the entry list.
EntryKeys == {entries[i].name : i \in Idx}

\* C33: Frame of a fetch pass: a step of a pass, in either mode, deletes no
\* record, and the only records it inserts or replaces are stored under
\* the key of some entry of the entry list; a record under any other key,
\* such as the one left by an entry since dropped from the config, stays
\* as it is.
C33_PassFrame ==
  [][/\ DOMAIN db \subseteq DOMAIN db'
     /\ \A k \in DOMAIN db' :
          (k \notin DOMAIN db \/ db'[k] # db[k]) => k \in EntryKeys]_vars

\* A pass over a config that has lost an entry has stored a record, and the
\* record of the dropped entry, under a key no entry has any more, is in
\* the store.
C33_Witness ==
  /\ edit.field = "drop"
  /\ mode # "idle"
  /\ db # startDb
  /\ \E k \in DOMAIN db : k \notin EntryKeys

\* The record of entry i with the given payload.
RecordOf(i, payload) == Bytes(set_response(EntryValue(entries[i]), payload))

\* C34: Unconditional miss-path insert: the write that ends the miss path
\* (of a per-task handler, and of the pipelined consumer for a message with
\* a payload) does not look at the store again; whatever another writer has
\* stored under the key since the miss was observed, once the insert has
\* run the key holds the record of the entry that inserted, so the last
\* insert to execute wins.
C34_MissInsertUnconditional ==
  [][/\ \A i \in Idx :
          mode = "conc" /\ pc[i] = "get_miss" /\ pc'[i] = "done" =>
            /\ entries[i].name \in DOMAIN db'
            /\ \E nonce \in NonceChoice(encryption_method) :
                 db'[entries[i].name] =
                   RecordOf(i, encrypt_bytes(encryption_method,
                                             lastBody'[i].v,
                                             KeyBytes(entries[i].name),
                                             nonce).val)
     /\ (/\ mode = "chan" /\ mode' = "chan"
         /\ chan # <<>> /\ chan' = Tail(chan)
         /\ Head(chan).bytes.some) =>
            LET i == Head(chan).i IN
            /\ entries[i].name \in DOMAIN db'
            /\ \E nonce \in NonceChoice(encryption_method) :
                 db'[entries[i].name] =
                   RecordOf(i, encrypt_bytes(encryption_method,
                                             Head(chan).bytes.v,
                                             KeyBytes(entries[i].name),
                                             nonce).val)]_vars

\* Two entries with one key and different versions both observed a miss in
\* a per-task pass and both inserted: no update ran and no swap succeeded,
\* so the second insert replaced what the first had stored.
C34_Witness ==
  /\ mode = "conc"
  /\ Len(entries) = 2
  /\ entries[1].name = entries[2].name
  /\ entries[1].version # entries[2].version
  /\ entries[1].name \notin DOMAIN startDb
  /\ \A i \in Idx : pc[i] = "done" /\ gets[i] = 1
  /\ casn = 0
  /\ upd.n = 0
  /\ StoredVersion(db, entries[1].name) \in
       {entries[1].version, entries[2].version}

\* C35: Pipelined phases do not overlap: the consumer takes its first
\* message only when every producer has posted, so the store changes, and
\* the consumer moves, only while no producer is before its send (none with
\* its GET in flight); and a pass a producer has failed ends with the store
\* as the pass found it.
C35_PhasesDisjoint ==
  [][/\ (/\ mode = "chan"
         /\ \/ db' # db
            \/ cons' # cons
            \/ mode' = "chan" /\ chan # <<>> /\ chan' = Tail(chan))
        => /\ \A i \in Idx : pc[i] = "sent"
           /\ cons.n = 0 /\ cons.st = "off" => Len(chan) = Len(entries)
     /\ mode = "chan" /\ result' = "err" => db' = startDb]_vars

\* In a pipelined pass over two entries both producers sent a GET and
\* posted, and the consumer has since written to the store.
C35_Witness ==
  /\ mode = "chan"
  /\ Len(entries) = 2
  /\ \A i \in Idx : gets[i] = 1 /\ pc[i] = "sent"
  /\ db # startDb

\* The entries with a GET in flight for a key that is in the store.
RefreshInFlight ==
  {i \in Idx : \/ /\ mode = "chan"
                   /\ pc[i] = "get"
                   /\ entries[i].name \in DOMAIN db
                \/ /\ mode = "chan"
                   /\ cons.st = "get"
                   /\ cons.i = i}

\* C36: Pipelined stale refreshes are sequential: in a pipelined pass a
\* producer has a GET in flight only for a key that is absent from the
\* store; the GET for a stored key whose record is stale is the consumer's,
\* sent for a message without payload once the producers are done, and
\* there is never more than one of them in flight.
C36_StaleRefreshSequential ==
  mode = "chan" =>
    /\ \A i \in Idx : pc[i] = "get" => entries[i].name \notin DOMAIN db
    /\ Cardinality(RefreshInFlight) <= 1
    /\ cons.st = "get" =>
         /\ \A i \in Idx : pc[i] = "sent"
         /\ gets[cons.i] = 1
         /\ entries[cons.i].name \in DOMAIN db
         /\ (cons.cv = startDb[entries[cons.i].name] \/ casn >= 1)

\* The consumer has refreshed one stale record of the pass and has the
\* refresh GET of a second one in flight.
C36_Witness ==
  /\ mode = "chan"
  /\ cons.st = "get"
  /\ cons.n >= 1
  /\ casn = 1

\* C37: Watch events are handled one at a time in arrival order: the event
\* channel never holds more than one pending event; an event leaves the
\* channel only from its head, taken by the loop when no handler and no
\* pass is running, and nothing else removes it; so a pass is started, and
\* the store is cleared, only between two events, and while a handler is
\* running the only changes of the store are those of its own pass.
C37_OneEventAtATime ==
  [][/\ watch.st' # "off" => Len(watch'.queue) <= QueueCap
     /\ watch.st # "off" /\ watch'.queue # watch.queue =>
          \/ \E x \in {"Modify", "Remove", "Create", "Other", "Error"} :
               /\ Len(watch'.queue) = Len(watch.queue) + 1
               /\ SubSeq(watch'.queue, 1, Len(watch.queue)) = watch.queue
               /\ watch'.queue[Len(watch'.queue)].kind = x
          \/ /\ watch.queue # <<>>
             /\ watch'.queue = Tail(watch.queue)
             /\ watch'.last = Some(Head(watch.queue))
             /\ watch.st = "watching"
             /\ mode = "idle"
     /\ watch.st # "off" /\ passNo' # passNo =>
          watch.st = "watching" /\ mode = "idle" /\ watch.queue # <<>>
     /\ watch.st # "off" /\ db' # db =>
          \/ watch.st = "fetching" /\ mode = "conc"
          \/ watch.st = "watching" /\ mode = "idle" /\ watch.queue # <<>>
     ]_vars

\* A Remove event is waiting in the channel while the pass of the Modify
\* event before it is running.
C37_Witness ==
  /\ watch.st = "fetching"
  /\ mode = "conc"
  /\ watch.last = Some([kind |-> "Modify", added |-> watch.last.v.added])
  /\ watch.queue = <<[kind |-> "Remove"]>>
  /\ \E i \in Idx : pc[i] \in {"get_miss", "get_stale"}

\* The payload stored under k can be opened as write_all opens it.
Readable(d, k) ==
  /\ from_ivec(d[k]).ok
  /\ dec_or_clone(encryption_method, from_ivec(d[k]).val.response,
                  KeyBytes(k)).ok

\* C38: Encrypted-payload invariant: while a cipher is installed, every
\* record in the store, each written by a fetch pass or by update, carries
\* a payload that decrypts under the key bytes of its entry, as write_all
\* will decrypt it.
C38_EncryptedPayload ==
  CipherOn => \A k \in DOMAIN db : Readable(db, k)

\* C39: Quiescence on return: once a per-task pass has returned, with Ok
\* or with an error, every task of the pass has ended (none is before its
\* GET or between its GET and its write), and until the next pass starts
\* no GET is sent, no body arrives and no task moves; the store changes
\* only by the clear of a Remove event, never by a write of the pass.
C39_Quiescence ==
  [][mode = "idle" /\ passNo >= 1 =>
       /\ \A i \in Idx : pc[i] \in {"done", "failed", "panicked"}
       /\ passNo' = passNo =>
            /\ gets' = gets
            /\ pc' = pc
            /\ lastBody' = lastBody
            /\ casn' = casn
            /\ \/ db' = db
               \/ /\ watch.queue # <<>>
                  /\ Head(watch.queue).kind = "Remove"
                  /\ db' = EmptyDb]_vars

\* A per-task pass over two entries has returned the error of the first
\* task, the second task having sent its GET and written its record before
\* the return.
C39_Witness ==
  /\ mode = "idle"
  /\ result = "err"
  /\ Len(entries) = 2
  /\ pc = <<"failed", "done">>
  /\ gets[2] = 1
  /\ entries[2].name \in DOMAIN db
  /\ entries[2].name \notin DOMAIN startDb

====
